---- MODULE Spec2Model ----
(***************************************************************************)
(* Model of the Tricorder utilities:                                       *)
(*   - tricorder/eval/segmentation/EvaluateSegmentationWrapper.py          *)
(*       EvaluateSegmentationWrapper.{__init__, parse_params, get_scores}  *)
(*   - tricorder/mri/data/dicom.py                                         *)
(*       ReadSeries, ReadSeriesV2, ReadDICOMDIR, FileRead                  *)
(*                                                                         *)
(* Spec      : a wrapper object and a sequence of get_scores calls.        *)
(* SpecDicom : calls of the DICOM readers on bounded folders / indexes.    *)
(***************************************************************************)
EXTENDS Integers, Sequences, FiniteSets, TLC

VARIABLES
    self,         \* the wrapper's stored attributes (set by __init__)
    constructed,  \* history: the attributes as given at construction
    disk,         \* content kind of the file at the caller's xmlpath
    pc,           \* "idle" | "ended" : position of the caller of get_scores
    call,         \* the last get_scores call: inputs, frame at its end
    hist,         \* history: an earlier call passed overrides and raised
    dpc,          \* position inside the running DICOM reader call
    dcall,        \* the running DICOM reader call: function, arguments, input
    queue,        \* loop items not yet iterated
    imgs,         \* local list imgs
    sIDs,         \* local list sIDs
    metas,        \* local list metas
    dres          \* outcome of the DICOM reader call

evars == <<self, constructed, disk, pc, call, hist>>
dvars == <<dpc, dcall, queue, imgs, sIDs, metas, dres>>
vars == <<self, constructed, disk, pc, call, hist,
          dpc, dcall, queue, imgs, sIDs, metas, dres>>

(***************************************************************************)
(* Bounds of the model.                                                    *)
(***************************************************************************)
MaxOverrides == 2
MaxSeries == 2
MaxFaults == 1
MaxP == 2
MaxS == 2
MaxK == 2

(***************************************************************************)
(* Python values.  n holds the number of a bool / int, and the number of   *)
(* halves of a float (0.5 is 1, -1.0 is -2); s holds the text of a str.    *)
(***************************************************************************)
PyNone == [t |-> "none", n |-> 0, s |-> ""]
PyBool(b) == [t |-> "bool", n |-> IF b THEN 1 ELSE 0, s |-> ""]
PyInt(k) == [t |-> "int", n |-> k, s |-> ""]
PyFloat(h) == [t |-> "float", n |-> h, s |-> ""]
PyStr(x) == [t |-> "str", n |-> 0, s |-> x]
PyArray == [t |-> "ndarray", n |-> 0, s |-> ""]

IsNumber(v) == v.t \in {"bool", "int", "float"}
Halves(v) == IF v.t = "float" THEN v.n ELSE 2 * v.n

\* Python's ==
PyEq(a, b) ==
    IF IsNumber(a) /\ IsNumber(b) THEN Halves(a) = Halves(b) ELSE a = b

\* Python's truth value
Truthy(v) ==
    CASE v.t = "none" -> FALSE
      [] v.t = "str" -> v.s # ""
      [] v.t = "ndarray" -> TRUE
      [] OTHER -> v.n # 0

\* Python's str() on the values a threshold takes here
str(v) ==
    CASE v.t = "str" -> v
      [] v.t = "none" -> PyStr("None")
      [] v.t = "bool" -> PyStr(IF v.n = 1 THEN "True" ELSE "False")
      [] v = PyFloat(1) -> PyStr("0.5")
      [] v = PyFloat(-2) -> PyStr("-1.0")
      [] v = PyInt(-1) -> PyStr("-1")
      [] v = PyInt(0) -> PyStr("0")
      [] v = PyInt(1) -> PyStr("1")
      [] v = PyInt(2) -> PyStr("2")
      [] v = PyInt(3) -> PyStr("3")
      [] OTHER -> PyStr("?")

\* list.insert(i, x), i counted from 0
Insert(l, i, x) == SubSeq(l, 1, i) \o <<x>> \o SubSeq(l, i + 1, Len(l))

(***************************************************************************)
(* EvaluateSegmentationWrapper                                             *)
(***************************************************************************)
Options == {"useAll", "metrics", "threshold", "useMMunit", "mode", "return_rawdict"}

\* the default of every per-call parameter of get_scores: -1
Unset == PyInt(-1)

\* __init__: stores its arguments
Construct(bin_file, useAll, metrics, threshold, useMMunit, mode, return_rawdict) ==
    [bin_file |-> bin_file, useAll |-> useAll, metrics |-> metrics,
     threshold |-> threshold, useMMunit |-> useMMunit, mode |-> mode,
     return_rawdict |-> return_rawdict]

\* the wrappers of the model: the defaults of __init__, and two others
Constructions ==
    { Construct(PyStr("EvaluateSegmentation"), PyBool(TRUE), PyStr("DICE,PROBDST"),
                PyNone, PyBool(FALSE), PyInt(0), PyBool(FALSE)),
      Construct(PyStr("EvaluateSegmentation"), PyBool(FALSE), PyStr("DICE"),
                PyFloat(1), PyBool(TRUE), PyInt(1), PyBool(TRUE)),
      Construct(PyStr("EvaluateSegmentation"), PyBool(FALSE), PyStr("DICE,PROBDST"),
                PyNone, PyBool(FALSE), PyInt(2), PyBool(FALSE)) }

\* the values a caller passes for an option
OverrideValues(o) ==
    CASE o = "useAll" -> {PyBool(TRUE), PyBool(FALSE)}
      [] o = "metrics" -> {PyStr("DICE"), PyStr("DICE,PROBDST")}
      [] o = "threshold" -> {PyNone, PyFloat(1), PyFloat(-2)}
      [] o = "useMMunit" -> {PyBool(TRUE), PyBool(FALSE)}
      [] o = "mode" -> {PyInt(0), PyInt(1), PyInt(2), PyInt(3)}
      [] o = "return_rawdict" -> {PyBool(TRUE), PyBool(FALSE)}

\* parse_params with its assignments to self (none in the code) made visible
parse_params_storing(obj, a) ==
    LET pick(o) == IF PyEq(a[o], PyInt(-1)) THEN obj[o] ELSE a[o]
    IN [eff |-> [o \in Options |-> pick(o)],
        self |-> [x \in DOMAIN obj |-> IF x \in Options THEN pick(x) ELSE obj[x]]]

\* parse_params: rebinds its six parameters, returns them; self is only read
parse_params(obj, a) ==
    LET pick(o) == IF PyEq(a[o], PyInt(-1)) THEN obj[o] ELSE a[o]
    IN [eff |-> [o \in Options |-> pick(o)], self |-> obj]

\* the frame of a get_scores call before its first statement
Frame0(in, d) ==
    [eff |-> [o \in Options |-> PyNone],
     truth |-> in.truth, prediction |-> in.prediction,
     bound |-> {}, open |-> {}, suppressed |-> {},
     cmd |-> <<>>, raisedAt |-> "none",
     xmltmp |-> "none", disk |-> d, data |-> "none", ret |-> "none"]

\* lines 88-91: the truth array goes to a temporary file
SaveTruth(f, in, env) ==
    IF f.raisedAt # "none" \/ f.truth.t = "str" THEN f
    ELSE LET g == [f EXCEPT !.bound = @ \cup {"tmpTrue"}, !.open = @ \cup {"tmpTrue"}]
         IN IF env.fail = "FileSave_truth"
            THEN [g EXCEPT !.raisedAt = "FileSave_truth"]
            ELSE [g EXCEPT !.truth = PyStr("tmpTrue.nii.gz")]

\* lines 93-96: the prediction array goes to a temporary file
SavePrediction(f, in, env) ==
    IF f.raisedAt # "none" \/ f.prediction.t = "str" THEN f
    ELSE LET g == [f EXCEPT !.bound = @ \cup {"tmpPred"}, !.open = @ \cup {"tmpPred"}]
         IN IF env.fail = "FileSave_pred"
            THEN [g EXCEPT !.raisedAt = "FileSave_pred"]
            ELSE [g EXCEPT !.prediction = PyStr("tmpPred.nii.gz")]

\* lines 101-104 with the flag appended instead of inserted
ModeFlagAppended(cmd, mode) ==
    IF PyEq(mode, PyInt(1)) THEN Append(cmd, PyStr("-loc"))
    ELSE IF PyEq(mode, PyInt(2)) THEN Append(cmd, PyStr("-det"))
    ELSE cmd

\* lines 101-104
ModeFlag(cmd, mode) ==
    IF PyEq(mode, PyInt(1)) THEN Insert(cmd, 1, PyStr("-loc"))
    ELSE IF PyEq(mode, PyInt(2)) THEN Insert(cmd, 1, PyStr("-det"))
    ELSE cmd

\* lines 98-114: the argument list; the temporary XML file is created here
BuildCmd(f, obj, in) ==
    IF f.raisedAt # "none" THEN f
    ELSE LET c0 == <<obj.bin_file, f.truth, f.prediction>>
             c1 == ModeFlag(c0, f.eff["mode"])
             c2 == IF f.eff["threshold"] # PyNone
                   THEN c1 \o <<PyStr("-thd"), str(f.eff["threshold"])>> ELSE c1
             c3 == IF in.xmlpath # PyNone
                   THEN c2 \o <<PyStr("-xml"), in.xmlpath>>
                   ELSE c2 \o <<PyStr("-xml"), PyStr("tmpXML.xml")>>
             c4 == c3 \o <<PyStr("-unit"),
                           IF Truthy(f.eff["useMMunit"]) THEN PyStr("millimeter")
                                                         ELSE PyStr("voxel")>>
             c5 == c4 \o <<PyStr("-use"),
                           IF Truthy(f.eff["useAll"]) THEN PyStr("all")
                                                      ELSE f.eff["metrics"]>>
         IN IF in.xmlpath # PyNone
            THEN [f EXCEPT !.cmd = c5]
            ELSE [f EXCEPT !.cmd = c5, !.bound = @ \cup {"tmpXML"},
                           !.open = @ \cup {"tmpXML"}, !.xmltmp = "empty"]

\* lines 116-117: the tool runs; it writes its report to the -xml path, or nothing
RunTool(f, in, env) ==
    IF f.raisedAt # "none" THEN f
    ELSE IF env.fail = "Popen" THEN [f EXCEPT !.raisedAt = "Popen"]
    ELSE IF env.tool.writes = "nothing" THEN f
    ELSE IF in.xmlpath # PyNone THEN [f EXCEPT !.disk = env.tool.writes]
    ELSE [f EXCEPT !.xmltmp = env.tool.writes]

\* try: <name>.close() except: pass
TryClose(f, name) ==
    IF name \in f.bound
    THEN [f EXCEPT !.open = @ \ {name}]
    ELSE [f EXCEPT !.suppressed = @ \cup {name}]

\* lines 121-128
CloseInputs(f) ==
    IF f.raisedAt # "none" THEN f
    ELSE TryClose(TryClose(f, "tmpTrue"), "tmpPred")

\* ET.parse of a file with this content: the parsed kind, or "raise"
ETparse(content) ==
    IF content \in {"report", "nometrics"} THEN content ELSE "raise"

\* lines 130-134
ParseReport(f, in) ==
    IF f.raisedAt # "none" THEN f
    ELSE IF in.xmlpath # PyNone
         THEN IF ETparse(f.disk) = "raise" THEN [f EXCEPT !.raisedAt = "ET.parse"]
              ELSE [f EXCEPT !.data = ETparse(f.disk)]
         ELSE IF ETparse(f.xmltmp) = "raise" THEN [f EXCEPT !.raisedAt = "ET.parse"]
              ELSE [f EXCEPT !.data = ETparse(f.xmltmp), !.open = @ \ {"tmpXML"}]

\* lines 136-143
Results(f) ==
    IF f.raisedAt # "none" THEN f
    ELSE IF f.data # "report" THEN [f EXCEPT !.raisedAt = "KeyError"]
    ELSE IF Truthy(f.eff["return_rawdict"]) THEN [f EXCEPT !.ret = "results_data"]
    ELSE [f EXCEPT !.ret = "results"]

\* get_scores, from its first statement to its return or raise
get_scores(obj, d, in, env) ==
    LET p == parse_params(obj, in.args)
        f0 == [Frame0(in, d) EXCEPT !.eff = p.eff]
        f1 == SaveTruth(f0, in, env)
        f2 == SavePrediction(f1, in, env)
        f3 == BuildCmd(f2, p.self, in)
        f4 == RunTool(f3, in, env)
        f5 == CloseInputs(f4)
        f6 == ParseReport(f5, in)
        f7 == Results(f6)
    IN [self |-> p.self, frame |-> f7]

\* what the external tool does in one run
ToolRuns ==
    { [exit |-> "ok", writes |-> "report"],
      [exit |-> "ok", writes |-> "nometrics"],
      [exit |-> "failed", writes |-> "nothing"],
      [exit |-> "failed", writes |-> "garbage"] }

\* the environment of one call: the step that fails, if any, and the tool's run
Envs(in) ==
    { [fail |-> "none", tool |-> t] : t \in ToolRuns }
    \cup { [fail |-> x, tool |-> [exit |-> "ok", writes |-> "report"]] :
             x \in {"Popen"}
                   \cup (IF in.truth.t # "str" THEN {"FileSave_truth"} ELSE {})
                   \cup (IF in.prediction.t # "str" THEN {"FileSave_pred"} ELSE {}) }

\* the keyword arguments of one call: at most MaxOverrides options are passed
ArgSets ==
    UNION { { [passed |-> P,
               args |-> [o \in Options |-> IF o \in P THEN v[o] ELSE Unset]] :
                v \in { w \in [P -> UNION {OverrideValues(o) : o \in Options}] :
                          \A o \in P : w[o] \in OverrideValues(o) } } :
            P \in { Q \in SUBSET Options : Cardinality(Q) <= MaxOverrides } }

Inputs ==
    { [truth |-> t, prediction |-> q, xmlpath |-> x, passed |-> a.passed, args |-> a.args] :
        t \in {PyStr("truth.nii.gz"), PyArray},
        q \in {PyStr("pred.nii.gz"), PyArray},
        x \in {PyNone, PyStr("out.xml")},
        a \in ArgSets }

NoCall ==
    [in |-> [truth |-> PyNone, prediction |-> PyNone, xmlpath |-> PyNone,
             passed |-> {}, args |-> [o \in Options |-> Unset]],
     env |-> [fail |-> "none", tool |-> [exit |-> "ok", writes |-> "report"]],
     before |-> "absent",
     frame |-> Frame0([truth |-> PyNone, prediction |-> PyNone], "absent")]

EvalInit ==
    /\ self \in Constructions
    /\ constructed = self
    /\ disk = "absent"
    /\ pc = "idle"
    /\ call = NoCall
    /\ hist = FALSE

\* one whole call of get_scores
GetScores ==
    /\ pc = "idle"
    /\ \E in \in Inputs : \E env \in Envs(in) :
         LET r == get_scores(self, disk, in, env)
         IN /\ self' = r.self
            /\ disk' = r.frame.disk
            /\ call' = [in |-> in, env |-> env, before |-> disk, frame |-> r.frame]
    /\ pc' = "ended"
    /\ UNCHANGED <<constructed, hist, dvars>>

\* the caller drops what the call returned or raised
Discard ==
    /\ pc = "ended"
    /\ pc' = "idle"
    /\ call' = NoCall
    /\ hist' = (hist \/ (call.in.passed # {} /\ call.frame.raisedAt # "none"))
    /\ UNCHANGED <<self, constructed, disk, dvars>>

(***************************************************************************)
(* tricorder/mri/data/dicom.py                                             *)
(*                                                                         *)
(* A folder is a sequence of series.  A series has its uid, the number of  *)
(* slices it decodes to, and the step at which reading it raises:          *)
(*   "header" : a file of it cannot be read at all                         *)
(*   "pixel"  : its pixel data cannot be decoded                           *)
(*   "meta"   : reading its tags raises                                    *)
(***************************************************************************)
SeqsUpTo(S, n) == UNION { [1..k -> S] : k \in 0..n }

Deviant(s) == s.fault # "none" \/ s.slices # 1

Folders ==
    { f \in SeqsUpTo([uid : 1..MaxSeries, fault : {"none", "header", "pixel", "meta"},
                      slices : {1, 2}], MaxSeries) :
        /\ \A i \in DOMAIN f : f[i].uid = i
        /\ Cardinality({i \in DOMAIN f : Deviant(f[i])}) <= MaxFaults }

\* the series_ids argument: None, one uid as a str, or a list of uids
NoIds == [kind |-> "none", ids |-> <<>>]
SeriesIdArgs(folder) ==
    {NoIds}
    \cup { [kind |-> "str", ids |-> <<k>>] : k \in DOMAIN folder }
    \cup { [kind |-> "list", ids |-> <<k>>] : k \in DOMAIN folder }
    \cup { [kind |-> "list", ids |-> [i \in DOMAIN folder |-> i]] }

\* bool(series_ids)
bool(x) == IF x.kind = "none" THEN FALSE ELSE IF x.kind = "str" THEN TRUE ELSE Len(x.ids) > 0

\* sitk.ImageSeriesReader.GetGDCMSeriesIDs: the uids of the folder, as a tuple
GetGDCMSeriesIDs(folder) == [kind |-> "tuple", ids |-> [i \in DOMAIN folder |-> folder[i].uid]]

\* lines 22-26 (and 59-63): the list the loop iterates
SeriesIdList(folder, series_ids) ==
    LET ids0 == IF ~bool(series_ids) THEN GetGDCMSeriesIDs(folder) ELSE series_ids
    IN IF ids0.kind # "list"
       THEN << ids0 >>
       ELSE [i \in DOMAIN ids0.ids |-> [kind |-> "str", ids |-> <<ids0.ids[i]>>]]

\* the series of the folder a loop item names, if it is one uid
Named(folder, sid) ==
    IF sid.kind # "str" THEN {}
    ELSE {i \in DOMAIN folder : folder[i].uid = sid.ids[1]}

Image(sid, s) == [of |-> sid, slices |-> s.slices]

\* lines 33-44: one iteration of ReadSeries, exceptions suppressed
ReadSeriesBody(folder, sid, return_meta, st) ==
    IF sid.kind # "str" THEN st                       \* line 35 raises
    ELSE IF Named(folder, sid) = {} THEN st           \* line 40 raises: no file
    ELSE LET s == folder[CHOOSE i \in Named(folder, sid) : TRUE]
             st1 == [st EXCEPT !.imgs = Append(@, Image(sid, s)),
                               !.sIDs = Append(@, sid)]
         IN IF s.fault \in {"header", "pixel"} THEN st      \* line 40 raises
            ELSE IF ~return_meta THEN st1
            ELSE IF s.fault = "meta" THEN st1               \* line 44 raises
            ELSE [st1 EXCEPT !.metas = Append(@, [of |-> sid])]

\* lines 70-86: one iteration of ReadSeriesV2, exceptions suppressed
ReadSeriesV2Body(folder, sid, return_meta, st) ==
    IF \E i \in DOMAIN folder : folder[i].fault = "header" THEN st   \* line 72 raises
    ELSE IF Named(folder, sid) = {} THEN st           \* line 83 raises: image is []
    ELSE LET s == folder[CHOOSE i \in Named(folder, sid) : TRUE]
         IN IF return_meta /\ s.fault = "meta" THEN st      \* line 80 raises
            ELSE IF s.fault = "pixel" THEN st               \* line 82 raises
            ELSE [st EXCEPT !.imgs = Append(@, Image(sid, s)),
                            !.sIDs = Append(@, sid),
                            !.metas = IF return_meta THEN Append(@, [of |-> sid]) ELSE @]

Homogeneous(l) == \A i, j \in DOMAIN l : l[i].slices = l[j].slices

\* np.array(imgs): an array; of arrays of unequal shapes, an array of objects
\* or a ValueError, by the numpy installed
NpArray(l) ==
    IF Homogeneous(l) THEN {[kind |-> "ndarray", items |-> l]}
    ELSE {[kind |-> "object_ndarray", items |-> l], [kind |-> "ValueError", items |-> <<>>]}

\* lines 48-55 with the tests in another order
ReturnShapeMetaFirst(returnIDs, return_meta) ==
    IF return_meta THEN <<"imgs", "metas">>
    ELSE IF return_meta /\ returnIDs THEN <<"imgs", "sIDs", "metas">>
    ELSE IF returnIDs THEN <<"imgs", "sIDs">>
    ELSE <<"imgs">>

\* lines 48-55
ReturnShape(returnIDs, return_meta) ==
    IF return_meta /\ returnIDs THEN <<"imgs", "sIDs", "metas">>
    ELSE IF return_meta THEN <<"imgs", "metas">>
    ELSE IF returnIDs THEN <<"imgs", "sIDs">>
    ELSE <<"imgs">>

\* lines 90-97
ReturnShapeV2(returnIDs, return_meta) ==
    IF return_meta /\ returnIDs THEN <<"imgs", "sIDs", "metas">>
    ELSE IF return_meta THEN <<"imgs", "metas">>
    ELSE IF returnIDs THEN <<"imgs", "sIDs">>
    ELSE <<"imgs">>

Raised(what) == [kind |-> "raise", exc |-> what, parts |-> <<>>,
                 imgs |-> [kind |-> "none", items |-> <<>>], sIDs |-> <<>>, metas |-> <<>>]

Returned(parts, a, ids, ms) ==
    [kind |-> "return", exc |-> "none", parts |-> parts,
     imgs |-> a,
     sIDs |-> IF \E i \in DOMAIN parts : parts[i] = "sIDs" THEN ids ELSE <<>>,
     metas |-> IF \E i \in DOMAIN parts : parts[i] = "metas" THEN ms ELSE <<>>]

NoResult == [kind |-> "none", exc |-> "none", parts |-> <<>>,
             imgs |-> [kind |-> "none", items |-> <<>>], sIDs |-> <<>>, metas |-> <<>>]

NoDicomCall ==
    [fn |-> "none", folder |-> <<>>, index |-> <<>>, returnIDs |-> FALSE,
     return_meta |-> FALSE, series_ids |-> NoIds, series2array |-> FALSE,
     return_data |-> FALSE, return_ds |-> FALSE, file |-> "none"]

\* ReadSeries / ReadSeriesV2 up to the loop (lines 22-29, 59-66)
SeriesCall(fn) ==
    /\ dpc = "idle"
    /\ \E folder \in Folders : \E ids \in SeriesIdArgs(folder) :
       \E rid \in BOOLEAN : \E rm \in BOOLEAN : \E s2a \in BOOLEAN :
         /\ dcall' = [NoDicomCall EXCEPT !.fn = fn, !.folder = folder,
                         !.returnIDs = rid, !.return_meta = rm,
                         !.series_ids = ids, !.series2array = s2a]
         /\ queue' = SeriesIdList(folder, ids)
    /\ imgs' = <<>>
    /\ sIDs' = <<>>
    /\ metas' = <<>>
    /\ dpc' = "loop"
    /\ UNCHANGED <<dres, evars>>

ReadSeriesCall == SeriesCall("ReadSeries")

ReadSeriesV2Call == SeriesCall("ReadSeriesV2")

\* one iteration of the loop over series_ids (lines 30-44)
ReadSeriesIter ==
    /\ dpc = "loop"
    /\ dcall.fn = "ReadSeries"
    /\ queue # <<>>
    /\ LET st == ReadSeriesBody(dcall.folder, Head(queue), dcall.return_meta,
                                [imgs |-> imgs, sIDs |-> sIDs, metas |-> metas])
       IN /\ imgs' = st.imgs
          /\ sIDs' = st.sIDs
          /\ metas' = st.metas
    /\ queue' = Tail(queue)
    /\ UNCHANGED <<dpc, dcall, dres, evars>>

\* one iteration of the loop over series_ids (lines 67-86)
ReadSeriesV2Iter ==
    /\ dpc = "loop"
    /\ dcall.fn = "ReadSeriesV2"
    /\ queue # <<>>
    /\ LET st == ReadSeriesV2Body(dcall.folder, Head(queue), dcall.return_meta,
                                  [imgs |-> imgs, sIDs |-> sIDs, metas |-> metas])
       IN /\ imgs' = st.imgs
          /\ sIDs' = st.sIDs
          /\ metas' = st.metas
    /\ queue' = Tail(queue)
    /\ UNCHANGED <<dpc, dcall, dres, evars>>

\* after the loop (lines 46-55)
ReadSeriesReturn ==
    /\ dpc = "loop"
    /\ dcall.fn = "ReadSeries"
    /\ queue = <<>>
    /\ \E a \in (IF dcall.series2array THEN NpArray(imgs)
                 ELSE {[kind |-> "list", items |-> imgs]}) :
         dres' = IF a.kind = "ValueError" THEN Raised("ValueError")
                 ELSE Returned(ReturnShape(dcall.returnIDs, dcall.return_meta),
                               a, sIDs, metas)
    /\ dpc' = "ended"
    /\ UNCHANGED <<dcall, queue, imgs, sIDs, metas, evars>>

\* after the loop (lines 88-97)
ReadSeriesV2Return ==
    /\ dpc = "loop"
    /\ dcall.fn = "ReadSeriesV2"
    /\ queue = <<>>
    /\ \E a \in (IF dcall.series2array THEN NpArray(imgs)
                 ELSE {[kind |-> "list", items |-> imgs]}) :
         dres' = IF a.kind = "ValueError" THEN Raised("ValueError")
                 ELSE Returned(ReturnShapeV2(dcall.returnIDs, dcall.return_meta),
                               a, sIDs, metas)
    /\ dpc' = "ended"
    /\ UNCHANGED <<dcall, queue, imgs, sIDs, metas, evars>>

(***************************************************************************)
(* A DICOMDIR index: patients, their studies, their series.  Text is a     *)
(* sequence of characters.  Series uids are unique in the index, as DICOM  *)
(* requires, and hold digits and dots only; patient ids and names are free *)
(* text.  A series record has the step at which reading it raises:         *)
(*   "decode" : the reader cannot decode its files                         *)
(*   "nouid"  : the record holds no SeriesInstanceUID                      *)
(***************************************************************************)
Digit == <<"1", "2", "3", "4">>

PatientPool ==
    << [PatientID |-> <<"a", "_", "b">>, PatientName |-> <<"c">>],
       [PatientID |-> <<"a">>, PatientName |-> <<"b", "_", "c">>],
       [PatientID |-> <<"a">>, PatientName |-> <<"c">>] >>

SeriesUID(p, s, k) == <<"1", ".", Digit[p], ".", Digit[s], ".", Digit[k]>>

Positions(P, S, K) == (1..P) \X (1..S) \X (1..K)

\* the index with P patients, S studies each, K series each; dev gives the
\* series that are not plain
DicomDir(P, S, K, dev) ==
    [p \in 1..P |->
       [PatientID |-> PatientPool[p].PatientID,
        PatientName |-> PatientPool[p].PatientName,
        studies |-> [s \in 1..S |->
           [StudyID |-> <<Digit[s]>>,
            series |-> [k \in 1..K |->
               [SeriesInstanceUID |-> SeriesUID(p, s, k),
                fault |-> IF <<p, s, k>> \in DOMAIN dev /\ dev[<<p, s, k>>] # "odd"
                          THEN dev[<<p, s, k>>] ELSE "none",
                slices |-> IF <<p, s, k>> \in DOMAIN dev /\ dev[<<p, s, k>>] = "odd"
                           THEN 2 ELSE 1]]]]]]

\* the subsets of S of at most n elements
RECURSIVE SubsetsUpTo(_, _)
SubsetsUpTo(S, n) ==
    IF n = 0 THEN {{}}
    ELSE LET R == SubsetsUpTo(S, n - 1)
         IN R \cup { T \cup {x} : T \in R, x \in S }

DicomDirs ==
    UNION { UNION { { DicomDir(c[1], c[2], c[3], dev) : dev \in [D -> {"decode", "nouid", "odd"}] } :
                    D \in SubsetsUpTo(Positions(c[1], c[2], c[3]), MaxFaults) } :
            c \in (1..MaxP) \X (1..MaxS) \X (1..MaxK) }

\* line 134 without the series uid
CompositeIDNoSeries(pID, sID, uid) == pID \o <<"_">> \o sID

\* line 134: f"{pID}_{sID}_{series.SeriesInstanceUID}"
CompositeID(pID, sID, uid) == pID \o <<"_">> \o sID \o <<"_">> \o uid

\* line 106: f"{patient.PatientID}_{patient.PatientName}"
PatientKey(patient) == patient.PatientID \o <<"_">> \o patient.PatientName

RECURSIVE Flatten(_)
Flatten(ll) == IF ll = <<>> THEN <<>> ELSE Head(ll) \o Flatten(Tail(ll))

\* lines 105-117: the series the three loops visit, in order, each with the
\* pID and sID computed in the outer loops
SeriesVisited(ds) ==
    Flatten([p \in DOMAIN ds |->
      Flatten([s \in DOMAIN ds[p].studies |->
        [k \in DOMAIN ds[p].studies[s].series |->
           [pID |-> PatientKey(ds[p]),
            sID |-> ds[p].studies[s].StudyID,
            series |-> ds[p].studies[s].series[k]]]])])

\* lines 129-134: the body of the innermost loop, exceptions suppressed
ReadDICOMDIRBody(item, st) ==
    IF item.series.fault = "decode" THEN st                  \* line 132 raises
    ELSE LET st1 == [st EXCEPT !.imgs = Append(@, [of |-> item.series.SeriesInstanceUID,
                                                   slices |-> item.series.slices])]
         IN IF item.series.fault = "nouid" THEN st1          \* line 134 raises
            ELSE [st1 EXCEPT !.sIDs = Append(@, CompositeID(item.pID, item.sID,
                                                    item.series.SeriesInstanceUID))]

\* lines 100-102
ReadDICOMDIRCall ==
    /\ dpc = "idle"
    /\ \E ds \in DicomDirs : \E rid \in BOOLEAN :
         /\ dcall' = [NoDicomCall EXCEPT !.fn = "ReadDICOMDIR", !.index = ds,
                                         !.returnIDs = rid]
         /\ queue' = SeriesVisited(ds)
    /\ imgs' = <<>>
    /\ sIDs' = <<>>
    /\ metas' = <<>>
    /\ dpc' = "loop"
    /\ UNCHANGED <<dres, evars>>

\* one series of the loops (lines 117-134)
ReadDICOMDIRIter ==
    /\ dpc = "loop"
    /\ dcall.fn = "ReadDICOMDIR"
    /\ queue # <<>>
    /\ LET st == ReadDICOMDIRBody(Head(queue), [imgs |-> imgs, sIDs |-> sIDs])
       IN /\ imgs' = st.imgs
          /\ sIDs' = st.sIDs
    /\ queue' = Tail(queue)
    /\ UNCHANGED <<dpc, dcall, metas, dres, evars>>

\* lines 135-136
ReadDICOMDIRReturn ==
    /\ dpc = "loop"
    /\ dcall.fn = "ReadDICOMDIR"
    /\ queue = <<>>
    /\ \E a \in NpArray(imgs) :
         dres' = IF a.kind = "ValueError" THEN Raised("ValueError")
                 ELSE Returned(IF dcall.returnIDs THEN <<"imgs", "sIDs">> ELSE <<"imgs">>,
                               a, sIDs, <<>>)
    /\ dpc' = "ended"
    /\ UNCHANGED <<dcall, queue, imgs, sIDs, metas, evars>>

\* lines 140-145 with the first test weakened to return_data
FileReadDataFirst(return_data, return_ds) ==
    IF return_data THEN <<"pixel_array">>
    ELSE IF ~return_data /\ return_ds THEN <<"ds">>
    ELSE <<"pixel_array", "ds">>

\* lines 140-145: what FileRead returns
FileRead(return_data, return_ds) ==
    IF return_data /\ ~return_ds THEN <<"pixel_array">>
    ELSE IF ~return_data /\ return_ds THEN <<"ds">>
    ELSE <<"pixel_array", "ds">>

\* the files FileRead is given: readable, without decodable pixel data, unreadable
Files == {"good", "nopixels", "unreadable"}

\* FileRead (lines 138-145)
FileReadCall ==
    /\ dpc = "idle"
    /\ \E file \in Files : \E rd \in BOOLEAN : \E rds \in BOOLEAN :
         /\ dcall' = [NoDicomCall EXCEPT !.fn = "FileRead", !.file = file,
                                         !.return_data = rd, !.return_ds = rds]
         /\ dres' = IF file = "unreadable" THEN Raised("InvalidDicomError")  \* line 139
                    ELSE IF file = "nopixels"
                            /\ \E i \in DOMAIN FileRead(rd, rds) :
                                  FileRead(rd, rds)[i] = "pixel_array"
                         THEN Raised("AttributeError")          \* ds.pixel_array
                    ELSE [NoResult EXCEPT !.kind = "return", !.parts = FileRead(rd, rds)]
    /\ dpc' = "ended"
    /\ UNCHANGED <<queue, imgs, sIDs, metas, evars>>

\* the caller drops the result
DicomDiscard ==
    /\ dpc = "ended"
    /\ dpc' = "idle"
    /\ dcall' = NoDicomCall
    /\ queue' = <<>>
    /\ imgs' = <<>>
    /\ sIDs' = <<>>
    /\ metas' = <<>>
    /\ dres' = NoResult
    /\ UNCHANGED evars

DicomIdle ==
    /\ dpc = "idle"
    /\ dcall = NoDicomCall
    /\ queue = <<>>
    /\ imgs = <<>>
    /\ sIDs = <<>>
    /\ metas = <<>>
    /\ dres = NoResult

Init == EvalInit /\ DicomIdle

Next == GetScores \/ Discard

Spec == Init /\ [][Next]_vars

DicomInit ==
    /\ self = Construct(PyStr("EvaluateSegmentation"), PyBool(TRUE), PyStr("DICE,PROBDST"),
                        PyNone, PyBool(FALSE), PyInt(0), PyBool(FALSE))
    /\ constructed = self
    /\ disk = "absent"
    /\ pc = "idle"
    /\ call = NoCall
    /\ hist = FALSE
    /\ DicomIdle

DicomNext ==
    \/ ReadSeriesCall
    \/ ReadSeriesIter
    \/ ReadSeriesReturn
    \/ ReadSeriesV2Call
    \/ ReadSeriesV2Iter
    \/ ReadSeriesV2Return
    \/ ReadDICOMDIRCall
    \/ ReadDICOMDIRIter
    \/ ReadDICOMDIRReturn
    \/ FileReadCall
    \/ DicomDiscard

SpecDicom == DicomInit /\ [][DicomNext]_vars

(***************************************************************************)
(* The claims.                                                             *)
(***************************************************************************)
Ended == pc = "ended"

\* C1: for each of the six options, the value a get_scores call uses is the
\* value the caller passed, whatever that value is, and the constructor
\* default only when the option was not passed.
C1_OverrideWins ==
    Ended =>
      \A o \in Options :
        /\ o \in call.in.passed => call.frame.eff[o] = call.in.args[o]
        /\ o \notin call.in.passed => call.frame.eff[o] = self[o]

\* C2: when a get_scores call has ended, by return or by raise, no
\* temporary file it created is still open.
C2_TempFilesReleased ==
    Ended => call.frame.open = {}

\* C3: the argument list is the binary, the mode flag (-loc for mode 1, -det
\* for mode 2, else none), the truth path, the prediction path, -thd and the
\* threshold iff it is not None, -xml and the caller's or the temporary path,
\* -unit millimeter or voxel, -use all or the metrics.
C3_ArgumentList ==
    (Ended /\ call.frame.raisedAt \notin {"FileSave_truth", "FileSave_pred"}) =>
      LET e == call.frame.eff
          truthPath == IF call.in.truth.t = "str" THEN call.in.truth
                       ELSE PyStr("tmpTrue.nii.gz")
          predPath == IF call.in.prediction.t = "str" THEN call.in.prediction
                      ELSE PyStr("tmpPred.nii.gz")
          flag == IF e["mode"] = PyInt(1) THEN <<PyStr("-loc")>>
                  ELSE IF e["mode"] = PyInt(2) THEN <<PyStr("-det")>>
                  ELSE <<>>
          thd == IF e["threshold"] = PyNone THEN <<>>
                 ELSE <<PyStr("-thd"), str(e["threshold"])>>
          xml == <<PyStr("-xml"), IF call.in.xmlpath = PyNone THEN PyStr("tmpXML.xml")
                                  ELSE call.in.xmlpath>>
          unit == <<PyStr("-unit"), IF e["useMMunit"] = PyBool(TRUE)
                                    THEN PyStr("millimeter") ELSE PyStr("voxel")>>
          use == <<PyStr("-use"), IF e["useAll"] = PyBool(TRUE) THEN PyStr("all")
                                  ELSE e["metrics"]>>
      IN call.frame.cmd =
           <<self.bin_file>> \o flag \o <<truthPath, predPath>> \o thd \o xml \o unit \o use

\* a call that passed mode 1 and a threshold, on two arrays, without xmlpath
C3_Witness ==
    /\ Ended
    /\ call.frame.eff["mode"] = PyInt(1)
    /\ call.frame.eff["threshold"] = PyFloat(1)
    /\ call.in.truth = PyArray
    /\ call.in.xmlpath = PyNone
    /\ Len(call.frame.cmd) = 12
    /\ call.frame.ret = "results"

\* C5: a call whose tool run fails and writes no valid XML returns nothing
\* and ends with the failure of the XML parse, with the temporary report
\* file and with the caller's xmlpath alike.
C5_FailedRunRaises ==
    (Ended /\ call.env.fail = "none" /\ call.env.tool.exit = "failed"
           /\ call.env.tool.writes \in {"nothing", "garbage"}) =>
      /\ call.frame.ret = "none"
      /\ call.frame.raisedAt = "ET.parse"

\* C9: the stored defaults stay what the constructor was given, through
\* every call, returned or raised; a call with no overrides uses them.
C9_DefaultsUnchanged ==
    /\ self = constructed
    /\ (Ended /\ call.in.passed = {}) =>
          \A o \in Options : call.frame.eff[o] = constructed[o]

\* a call with no overrides that returns, after a call that overrode and raised
C9_Witness ==
    /\ Ended
    /\ hist
    /\ call.in.passed = {}
    /\ call.frame.ret # "none"

DEnded(fns) == dpc = "ended" /\ dcall.fn \in fns

Failing(folder) == {i \in DOMAIN folder : folder[i].fault # "none"}

\* C4: on a folder of N series of one shape, with no series filter and
\* returnIDs, ReadSeries and ReadSeriesV2 return N images and N identifiers
\* when every series decodes, and N-1 of each when exactly one does not.
C4_FolderReadCounts ==
    ( /\ DEnded({"ReadSeries", "ReadSeriesV2"})
      /\ dcall.series_ids = NoIds
      /\ dcall.returnIDs
      /\ \A i \in DOMAIN dcall.folder :
            /\ dcall.folder[i].slices = 1
            /\ dcall.folder[i].fault \in {"none", "header", "pixel"} ) =>
      LET N == Len(dcall.folder)
          bad == Cardinality(Failing(dcall.folder))
      IN bad <= 1 =>
           /\ dres.kind = "return"
           /\ Len(dres.imgs.items) = N - bad
           /\ Len(dres.sIDs) = N - bad

\* C6: ReadSeries and ReadSeriesV2 return (images, ids, metas) when both
\* flags are set, (images, metas) with return_meta only, (images, ids) with
\* returnIDs only, images alone with neither.
C6_ReturnShape ==
    (DEnded({"ReadSeries", "ReadSeriesV2"}) /\ dres.kind = "return") =>
      dres.parts =
        CASE dcall.returnIDs /\ dcall.return_meta -> <<"imgs", "sIDs", "metas">>
          [] ~dcall.returnIDs /\ dcall.return_meta -> <<"imgs", "metas">>
          [] dcall.returnIDs /\ ~dcall.return_meta -> <<"imgs", "sIDs">>
          [] OTHER -> <<"imgs">>

\* ReadSeries returns two series with their ids and metas
C6_Witness ==
    /\ DEnded({"ReadSeries"})
    /\ dcall.returnIDs
    /\ dcall.return_meta
    /\ dres.kind = "return"
    /\ Len(dres.imgs.items) = 2
    /\ Len(dres.metas) = 2

\* C7 as stated: FileRead returns the pixel data alone with return_data
\* only, the dataset alone with return_ds only, both with both flags, and
\* the pixel data alone with neither.
C7_FileReadAsStated ==
    (DEnded({"FileRead"}) /\ dres.kind = "return") =>
      dres.parts =
        CASE dcall.return_data /\ ~dcall.return_ds -> <<"pixel_array">>
          [] ~dcall.return_data /\ dcall.return_ds -> <<"ds">>
          [] dcall.return_data /\ dcall.return_ds -> <<"pixel_array", "ds">>
          [] OTHER -> <<"pixel_array">>

\* C7 amended: FileRead returns the pixel data alone with return_data only,
\* the dataset alone with return_ds only, and both the pixel data and the
\* dataset with both flags and with neither.
C7_FileReadAmended ==
    (DEnded({"FileRead"}) /\ dres.kind = "return") =>
      dres.parts =
        CASE dcall.return_data /\ ~dcall.return_ds -> <<"pixel_array">>
          [] ~dcall.return_data /\ dcall.return_ds -> <<"ds">>
          [] OTHER -> <<"pixel_array", "ds">>

\* FileRead returns with both flags false
C7_Witness ==
    /\ DEnded({"FileRead"})
    /\ ~dcall.return_data
    /\ ~dcall.return_ds
    /\ dres.kind = "return"

Distinct(l) == \A i, j \in DOMAIN l : i # j => l[i] # l[j]

IndexSize(ds) == Len(ds) * Len(ds[1].studies) * Len(ds[1].studies[1].series)

NoDecodeFailure(ds) ==
    \A p \in DOMAIN ds : \A s \in DOMAIN ds[p].studies :
      \A k \in DOMAIN ds[p].studies[s].series : ds[p].studies[s].series[k].fault = "none"

OneShape(ds) ==
    \A p \in DOMAIN ds : \A s \in DOMAIN ds[p].studies :
      \A k \in DOMAIN ds[p].studies[s].series : ds[p].studies[s].series[k].slices = 1

\* every identifier is patient id, patient name, study id and series uid of
\* one series of the index, joined by "_"
BuiltFromIndex(ds, ids) ==
    \A i \in DOMAIN ids :
      \E p \in DOMAIN ds : \E s \in DOMAIN ds[p].studies :
        \E k \in DOMAIN ds[p].studies[s].series :
          ids[i] = ds[p].PatientID \o <<"_">> \o ds[p].PatientName \o <<"_">>
                   \o ds[p].studies[s].StudyID \o <<"_">>
                   \o ds[p].studies[s].series[k].SeriesInstanceUID

\* C8 as stated: on an index of P patients, S studies each, K series each,
\* with no decode failure, ReadDICOMDIR with returnIDs returns P*S*K
\* composite identifiers, pairwise distinct.
C8_DicomdirAsStated ==
    (DEnded({"ReadDICOMDIR"}) /\ dcall.returnIDs /\ NoDecodeFailure(dcall.index)) =>
      /\ dres.kind = "return"
      /\ Len(dres.sIDs) = IndexSize(dcall.index)
      /\ Distinct(dres.sIDs)
      /\ BuiltFromIndex(dcall.index, dres.sIDs)

\* C8 amended: the same, when moreover all series decode to arrays of one
\* shape.
C8_DicomdirAmended ==
    (DEnded({"ReadDICOMDIR"}) /\ dcall.returnIDs /\ NoDecodeFailure(dcall.index)
       /\ OneShape(dcall.index)) =>
      /\ dres.kind = "return"
      /\ Len(dres.sIDs) = IndexSize(dcall.index)
      /\ Distinct(dres.sIDs)
      /\ BuiltFromIndex(dcall.index, dres.sIDs)

\* ReadDICOMDIR returns the identifiers of two patients' eight series
C8_Witness ==
    /\ DEnded({"ReadDICOMDIR"})
    /\ dcall.returnIDs
    /\ NoDecodeFailure(dcall.index)
    /\ OneShape(dcall.index)
    /\ Len(dcall.index) = 2
    /\ Len(dres.sIDs) = 8

Suffix(l, n) == SubSeq(l, Len(l) - n + 1, Len(l))

\* C10: after each series of ReadSeries, ReadSeriesV2 and ReadDICOMDIR, read
\* or skipped, imgs and sIDs have one length, metas has it too under
\* return_meta, and the entries at one index belong to one series.
C10_ListsAligned ==
    dpc \in {"loop", "ended"} /\ dcall.fn \in {"ReadSeries", "ReadSeriesV2", "ReadDICOMDIR"} =>
      /\ Len(imgs) = Len(sIDs)
      /\ dcall.return_meta => Len(metas) = Len(imgs)
      /\ \A i \in DOMAIN imgs : i \in DOMAIN sIDs =>
           IF dcall.fn = "ReadDICOMDIR"
           THEN Suffix(sIDs[i], Len(imgs[i].of)) = imgs[i].of
           ELSE imgs[i].of = sIDs[i]
      /\ \A i \in DOMAIN metas : i \in DOMAIN sIDs => metas[i].of = sIDs[i]

====
